---- MODULE Spec2Model ----
(***************************************************************************)
(* Model of web-monitor-tool.py: the WebMonitor class (the polling loop,   *)
(* its start/stop, rule evaluation and dispatch, the configuration file)   *)
(* driven by a client thread that calls its methods the way MonitorGUI's   *)
(* handlers do.                                                            *)
(*                                                                         *)
(* Strings the code inspects (fetched values, condition values) are        *)
(* sequences of one-character strings; strings it only stores (urls,       *)
(* selectors, descriptions) are atoms.  An Optional[...] is a sequence of  *)
(* length 0 (None) or 1.                                                   *)
(***************************************************************************)
EXTENDS Integers, Sequences, FiniteSets, TLC

\* ------------------------------------------------------------- bounds
MaxTargets == 2
MaxRules == 2
MaxThreads == 2
MaxQueue == 1
\* thread.join(timeout=5)
JoinTimeout == 5
\* The seconds that pass in one step of the clock.
TickSeconds == 5

\* ------------------------------------------------------------- values
None == << >>
Some(v) == << v >>
IsNone(o) == Len(o) = 0
Get(o) == o[1]

Empty == << >>
V5 == << "5" >>
V10 == << "1", "0" >>
V12 == << "1", "2" >>
Va == << "a" >>
VaX == << "a", "X" >>
VX == << "X" >>

\* Python truthiness of an Optional[str]: None and "" are false.
Truthy(o) == ~IsNone(o) /\ Get(o) # Empty

\* The same for a string the code only stores (an atom).
TruthyA(o) == ~IsNone(o) /\ Get(o) # ""

Digits == { "0", "1", "2", "3", "4", "5", "6", "7", "8", "9" }
DigitVal(c) == CASE c = "0" -> 0 [] c = "1" -> 1 [] c = "2" -> 2 [] c = "3" -> 3
                 [] c = "4" -> 4 [] c = "5" -> 5 [] c = "6" -> 6 [] c = "7" -> 7
                 [] c = "8" -> 8 [] c = "9" -> 9

\* float(s) succeeds: the model's strings are unsigned decimal integers or
\* contain a letter, so float() accepts exactly the non-empty digit strings.
IsFloat(s) == Len(s) > 0 /\ \A k \in 1..Len(s) : s[k] \in Digits

RECURSIVE FloatOf(_)
FloatOf(s) == IF Len(s) = 0 THEN 0
              ELSE 10 * FloatOf(SubSeq(s, 1, Len(s) - 1)) + DigitVal(s[Len(s)])

\* sub in s, on strings
Contains(s, sub) == \E k \in 0..(Len(s) - Len(sub)) : SubSeq(s, k + 1, k + Len(sub)) = sub

\* ------------------------------------------------------------- SelectorType
SelectorTypeMembers == { "ID", "CLASS", "XPATH", "CSS", "NAME", "TAG" }
SelectorTypeValue(m) == CASE m = "ID" -> "id" [] m = "CLASS" -> "class"
                          [] m = "XPATH" -> "xpath" [] m = "CSS" -> "css"
                          [] m = "NAME" -> "name" [] m = "TAG" -> "tag"

\* SelectorType(value): the member whose value it is; raises ValueError (here:
\* IsSelectorTypeValue is false) otherwise.
IsSelectorTypeValue(v) == \E m \in SelectorTypeMembers : SelectorTypeValue(m) = v
SelectorTypeOf(v) == CHOOSE m \in SelectorTypeMembers : SelectorTypeValue(m) = v

\* ------------------------------------------------------------- records
MonitorTarget(u, s, st, iv, d) ==
    [ url |-> u, element_selector |-> s, selector_type |-> st,
      check_interval |-> iv, description |-> d ]

ActionRule(c, cv, au, as, ast, n, d) ==
    [ condition |-> c, condition_value |-> cv, action_url |-> au,
      action_selector |-> as, action_selector_type |-> ast,
      notify |-> n, description |-> d ]

NoTarget == MonitorTarget("", "", "ID", 0, "")
NoRule == ActionRule("", None, None, None, None, FALSE, "")

\* ------------------------------------------------------------- check_condition
\* check_condition with >= and <= for > and <
check_condition_nonstrict(rule, old_value, new_value) ==
    IF rule.condition = "any_change" THEN old_value # new_value
    ELSE IF rule.condition = "contains" /\ Truthy(rule.condition_value)
         THEN Contains(new_value, Get(rule.condition_value))
    ELSE IF rule.condition = "equals" /\ Truthy(rule.condition_value)
         THEN new_value = Get(rule.condition_value)
    ELSE IF rule.condition = "greater" /\ Truthy(rule.condition_value)
         THEN /\ IsFloat(new_value) /\ IsFloat(Get(rule.condition_value))
              /\ FloatOf(new_value) >= FloatOf(Get(rule.condition_value))
    ELSE IF rule.condition = "less" /\ Truthy(rule.condition_value)
         THEN /\ IsFloat(new_value) /\ IsFloat(Get(rule.condition_value))
              /\ FloatOf(new_value) <= FloatOf(Get(rule.condition_value))
    ELSE FALSE

check_condition(rule, old_value, new_value) ==
    IF rule.condition = "any_change" THEN old_value # new_value
    ELSE IF rule.condition = "contains" /\ Truthy(rule.condition_value)
         THEN Contains(new_value, Get(rule.condition_value))
    ELSE IF rule.condition = "equals" /\ Truthy(rule.condition_value)
         THEN new_value = Get(rule.condition_value)
    ELSE IF rule.condition = "greater" /\ Truthy(rule.condition_value)
         THEN /\ IsFloat(new_value) /\ IsFloat(Get(rule.condition_value))
              /\ FloatOf(new_value) > FloatOf(Get(rule.condition_value))
    ELSE IF rule.condition = "less" /\ Truthy(rule.condition_value)
         THEN /\ IsFloat(new_value) /\ IsFloat(Get(rule.condition_value))
              /\ FloatOf(new_value) < FloatOf(Get(rule.condition_value))
    ELSE FALSE

\* ------------------------------------------------------------- the browser
\* What the driver answers to one get_element_value: the page load succeeds or
\* raises, the element is found within the wait or not, and the element's
\* text, value attribute and innerHTML.
Element(t, v, h) == [ text |-> t, value |-> v, innerHTML |-> h ]
Page(l, e) == [ load |-> l, element |-> e ]
PageRaise == Page("raise", None)
PageNoElement == Page("ok", None)
PageText(v) == Page("ok", Some(Element(v, None, v)))
PageInput(v) == Page("ok", Some(Element(Empty, Some(v), Empty)))
PageEmpty == Page("ok", Some(Element(Empty, None, Empty)))

\* get_element_value: [value: Optional[str], msgs: what it puts on the queue]
get_element_value(page) ==
    IF page.load = "raise" THEN [ value |-> None, msgs |-> << "fetch_error" >> ]
    ELSE IF IsNone(page.element) THEN [ value |-> None, msgs |-> << >> ]
    ELSE LET e == Get(page.element)
             v1 == Some(e.text)
             v2 == IF ~Truthy(v1) THEN e.value ELSE v1
             v3 == IF ~Truthy(v2) THEN Some(e.innerHTML) ELSE v2
         IN [ value |-> v3, msgs |-> << >> ]

\* What the driver and the notifier answer during one dispatch.
World(nt, nav, found, click, script) ==
    [ notify |-> nt, nav |-> nav, found |-> found, click |-> click, script |-> script ]
AllWorlds == { World(nt, nav, f, c, s) : nt \in { "ok", "raise" },
                                         nav \in { "ok", "raise" }, f \in BOOLEAN,
                                         c \in { "ok", "raise" },
                                         s \in { "ok", "raise" } }

\* execute_action without the JavaScript click: a failed click is the error.
execute_action_direct(rule, w) ==
    LET nav == IF TruthyA(rule.action_url) THEN << "get" >> ELSE << >>
        sel == TruthyA(rule.action_selector) /\ ~IsNone(rule.action_selector_type)
    IN IF TruthyA(rule.action_url) /\ w.nav = "raise"
       THEN [ calls |-> nav, msgs |-> << "action_error" >> ]
       ELSE IF ~sel THEN [ calls |-> nav, msgs |-> << >> ]
       ELSE IF ~w.found THEN [ calls |-> nav \o << "find" >>, msgs |-> << >> ]
       ELSE IF w.click = "ok"
            THEN [ calls |-> nav \o << "find", "click" >>, msgs |-> << "action_done" >> ]
       ELSE [ calls |-> nav \o << "find", "click" >>, msgs |-> << "action_error" >> ]

\* execute_action: [calls: the driver calls made, msgs: what it puts on the queue]
execute_action(rule, w) ==
    LET nav == IF TruthyA(rule.action_url) THEN << "get" >> ELSE << >>
        sel == TruthyA(rule.action_selector) /\ ~IsNone(rule.action_selector_type)
    IN IF TruthyA(rule.action_url) /\ w.nav = "raise"
       THEN [ calls |-> nav, msgs |-> << "action_error" >> ]
       ELSE IF ~sel THEN [ calls |-> nav, msgs |-> << >> ]
       ELSE IF ~w.found THEN [ calls |-> nav \o << "find" >>, msgs |-> << >> ]
       ELSE IF w.click = "ok"
            THEN [ calls |-> nav \o << "find", "click" >>, msgs |-> << "action_done" >> ]
       ELSE IF w.script = "ok"
            THEN [ calls |-> nav \o << "find", "click", "script_click" >>,
                   msgs |-> << "action_done" >> ]
       ELSE [ calls |-> nav \o << "find", "click", "script_click" >>,
              msgs |-> << "action_error" >> ]

\* send_notification: the notifier is called; whatever it raises is swallowed.
send_notification(w) == << "notify" >>

\* ------------------------------------------------------------- state
VARIABLES
    monitoring,      \* self.monitoring
    monitor_thread,  \* self.monitor_thread: 0 is None, else a thread id
    targets,         \* self.targets
    rules,           \* self.rules
    last_values,     \* self.last_values: a function on the indices it holds
    message_queue,   \* self.message_queue
    config_file,     \* the content of monitor_config.json: None or Some(document)
    th,              \* the threads that run monitor_loop: position and locals
    caller,          \* the thread calling the methods: idle, or inside join
    ret              \* the last method called and what it returned

vars == << monitoring, monitor_thread, targets, rules, last_values, message_queue,
           config_file, th, caller, ret >>

\* What the properties need to know of the past; no action of the program reads
\* them.
VARIABLES
    seen,      \* the targets fetched successfully so far
    first,     \* a change found at the first successful fetch of a target is
               \* being processed
    evals,     \* the rules checked so far for the change being processed
    rulesAt,   \* self.rules when that change was found
    hist,      \* the value of every fetch so far, in order
    disp,      \* for each of them, the dispatches it led to
    saved,     \* the lists as save_config last wrote them; None once the file
               \* is written by something else
    midSleep,  \* the last stop_monitoring found its thread in time.sleep
    lastSeen,  \* for each target fetched successfully, the last value fetched
    passAt,    \* the targets in self.targets all through the current pass
    fetched,   \* the targets the loop has taken in the current pass, in order
    valuesOf   \* for each target fetched successfully, every value fetched

obs == << seen, first, evals, rulesAt, hist, disp, saved, midSleep, lastSeen,
          passAt, fetched, valuesOf >>
all == << vars, obs >>

Threads == 1..MaxThreads

\* A thread that is not running: never started or finished.
DeadThread ==
    [ pc |-> "dead", it |-> 0, i |-> 0, target |-> NoTarget, new_value |-> None,
      old_value |-> Empty, rit |-> 0, rule |-> NoRule, sleepLeft |-> 0,
      calls |-> << >> ]

\* The thread t in time.sleep(target.check_interval).  Of its locals only the
\* position of the list iterator is read again before it is assigned, so the
\* others are left out of the state from here on.
Sleeping(t) ==
    [ DeadThread EXCEPT !.pc = "sleep", !.it = th[t].it,
                        !.sleepLeft = th[t].target.check_interval ]

Alive(t) == th[t].pc # "dead"

\* self.last_values.get(i, "")
LastValuesGet(i) == IF i \in DOMAIN last_values THEN last_values[i] ELSE Empty
\* self.last_values[i] = v
LastValuesSet(i, v) == [ k \in DOMAIN last_values \cup { i } |->
                           IF k = i THEN v ELSE last_values[k] ]

CanPut(msgs) == Len(message_queue) + Len(msgs) <= MaxQueue

\* The last call returned nothing.
NoRet == [ op |-> "none", val |-> FALSE ]

Init ==
    /\ monitoring = FALSE
    /\ monitor_thread = 0
    /\ targets = << >>
    /\ rules = << >>
    /\ last_values = << >>
    /\ message_queue = << >>
    /\ config_file = None
    /\ th = [ t \in Threads |-> DeadThread ]
    /\ caller = [ pc |-> "idle", joinLeft |-> 0 ]
    /\ ret = NoRet
    /\ seen = { }
    /\ first = FALSE
    /\ evals = << >>
    /\ rulesAt = << >>
    /\ hist = << >>
    /\ disp = << >>
    /\ saved = None
    /\ midSleep = FALSE
    /\ lastSeen = << >>
    /\ passAt = << >>
    /\ fetched = << >>
    /\ valuesOf = << >>

\* ------------------------------------------------------------- monitor_loop
\* A loop that goes on with a new pass whatever self.monitoring is
LoopWhile_forever(t) ==
    /\ th[t].pc = "while"
    /\ th' = [ th EXCEPT ![t] = [ @ EXCEPT !.pc = "for", !.it = 0 ] ]
    /\ UNCHANGED << monitoring, monitor_thread, targets, rules, last_values,
                    message_queue, config_file, caller, ret >>

\* while self.monitoring: the loop goes on with a new pass over self.targets,
\* or the thread ends.
LoopWhile(t) ==
    /\ th[t].pc = "while"
    /\ th' = [ th EXCEPT ![t] = IF monitoring THEN [ @ EXCEPT !.pc = "for", !.it = 0 ]
                                ELSE DeadThread ]
    /\ UNCHANGED << monitoring, monitor_thread, targets, rules, last_values,
                    message_queue, config_file, caller, ret >>

\* A loop that takes a last value without a target at its index for a fault:
\* the thread ends.
LoopFor_strict(t) ==
    /\ th[t].pc = "for"
    /\ th' = [ th EXCEPT ![t] =
                 IF \E i \in DOMAIN last_values : i >= Len(targets)
                 THEN DeadThread
                 ELSE IF th[t].it < Len(targets)
                 THEN [ @ EXCEPT !.i = th[t].it, !.target = targets[th[t].it + 1],
                                 !.it = th[t].it + 1,
                                 !.pc = IF monitoring THEN "fetch" ELSE "while" ]
                 ELSE [ @ EXCEPT !.pc = "while" ] ]
    /\ UNCHANGED << monitoring, monitor_thread, targets, rules, last_values,
                    message_queue, config_file, caller, ret >>

\* The loop without its test of self.monitoring before each target
LoopFor_unchecked(t) ==
    /\ th[t].pc = "for"
    /\ th' = [ th EXCEPT ![t] =
                 IF th[t].it < Len(targets)
                 THEN [ @ EXCEPT !.i = th[t].it, !.target = targets[th[t].it + 1],
                                 !.it = th[t].it + 1, !.pc = "fetch" ]
                 ELSE [ @ EXCEPT !.pc = "while" ] ]
    /\ UNCHANGED << monitoring, monitor_thread, targets, rules, last_values,
                    message_queue, config_file, caller, ret >>

\* for i, target in enumerate(self.targets): the list iterator yields the item at
\* its position in the list as it is now, or ends the pass; then
\* if not self.monitoring: break
LoopFor(t) ==
    /\ th[t].pc = "for"
    /\ th' = [ th EXCEPT ![t] =
                 IF th[t].it < Len(targets)
                 THEN [ @ EXCEPT !.i = th[t].it, !.target = targets[th[t].it + 1],
                                 !.it = th[t].it + 1,
                                 !.pc = IF monitoring THEN "fetch" ELSE "while" ]
                 ELSE [ @ EXCEPT !.pc = "while" ] ]
    /\ UNCHANGED << monitoring, monitor_thread, targets, rules, last_values,
                    message_queue, config_file, caller, ret >>

\* monitor_loop without its try: a fetch that fails ends the thread.
LoopFetch_abort(t, page) ==
    LET r == get_element_value(page)
        old == LastValuesGet(th[t].i)
        changed == ~IsNone(r.value) /\ old # Empty /\ old # Get(r.value)
        msgs == r.msgs \o (IF changed THEN << "change" >> ELSE << >>)
    IN /\ th[t].pc = "fetch"
       /\ CanPut(msgs)
       /\ message_queue' = message_queue \o msgs
       /\ th' = [ th EXCEPT ![t] =
                    IF IsNone(r.value) THEN DeadThread
                    ELSE IF changed
                    THEN [ @ EXCEPT !.new_value = r.value, !.old_value = old,
                                    !.rit = 0, !.pc = "rules" ]
                    ELSE Sleeping(t) ]
       /\ last_values' = IF ~IsNone(r.value) /\ ~changed
                         THEN LastValuesSet(th[t].i, Get(r.value))
                         ELSE last_values
       /\ UNCHANGED << monitoring, monitor_thread, targets, rules, config_file,
                       caller, ret >>

\* monitor_loop that forgets the stored value when a fetch fails
LoopFetch_forget(t, page) ==
    LET r == get_element_value(page)
        old == LastValuesGet(th[t].i)
        changed == ~IsNone(r.value) /\ old # Empty /\ old # Get(r.value)
        msgs == r.msgs \o (IF changed THEN << "change" >> ELSE << >>)
    IN /\ th[t].pc = "fetch"
       /\ CanPut(msgs)
       /\ message_queue' = message_queue \o msgs
       /\ th' = [ th EXCEPT ![t] =
                    IF changed
                    THEN [ @ EXCEPT !.new_value = r.value, !.old_value = old,
                                    !.rit = 0, !.pc = "rules" ]
                    ELSE Sleeping(t) ]
       /\ last_values' = IF IsNone(r.value) THEN LastValuesSet(th[t].i, Empty)
                         ELSE IF ~changed THEN LastValuesSet(th[t].i, Get(r.value))
                         ELSE last_values
       /\ UNCHANGED << monitoring, monitor_thread, targets, rules, config_file,
                       caller, ret >>

\* monitor_loop without the test old_value != new_value
LoopFetch_always(t, page) ==
    LET r == get_element_value(page)
        old == LastValuesGet(th[t].i)
        changed == ~IsNone(r.value) /\ old # Empty
        msgs == r.msgs \o (IF changed THEN << "change" >> ELSE << >>)
    IN /\ th[t].pc = "fetch"
       /\ CanPut(msgs)
       /\ message_queue' = message_queue \o msgs
       /\ th' = [ th EXCEPT ![t] =
                    IF changed
                    THEN [ @ EXCEPT !.new_value = r.value, !.old_value = old,
                                    !.rit = 0, !.pc = "rules" ]
                    ELSE Sleeping(t) ]
       /\ last_values' = IF ~IsNone(r.value) /\ ~changed
                         THEN LastValuesSet(th[t].i, Get(r.value))
                         ELSE last_values
       /\ UNCHANGED << monitoring, monitor_thread, targets, rules, config_file,
                       caller, ret >>

\* new_value = self.get_element_value(target) with the page the driver shows, and
\* the comparison with self.last_values: a change is published and the rules
\* are gone through, or the value is stored, or (None) nothing is done.
LoopFetch(t, page) ==
    LET r == get_element_value(page)
        old == LastValuesGet(th[t].i)
        changed == ~IsNone(r.value) /\ old # Empty /\ old # Get(r.value)
        msgs == r.msgs \o (IF changed THEN << "change" >> ELSE << >>)
    IN /\ th[t].pc = "fetch"
       /\ CanPut(msgs)
       /\ message_queue' = message_queue \o msgs
       /\ th' = [ th EXCEPT ![t] =
                    IF changed
                    THEN [ @ EXCEPT !.new_value = r.value, !.old_value = old,
                                    !.rit = 0, !.pc = "rules" ]
                    ELSE Sleeping(t) ]
       /\ last_values' = IF ~IsNone(r.value) /\ ~changed
                         THEN LastValuesSet(th[t].i, Get(r.value))
                         ELSE last_values
       /\ UNCHANGED << monitoring, monitor_thread, targets, rules, config_file,
                       caller, ret >>

\* for rule in self.rules: the next rule of the list as it is now is checked
\* against (old_value, new_value); after the last one
\* self.last_values[i] = new_value and the thread goes to sleep.
LoopRule(t) ==
    /\ th[t].pc = "rules"
    /\ IF th[t].rit < Len(rules)
       THEN LET rule == rules[th[t].rit + 1]
            IN /\ th' = [ th EXCEPT ![t] =
                            [ @ EXCEPT !.rule = rule, !.rit = th[t].rit + 1,
                                       !.calls = << >>,
                                       !.pc = IF check_condition(rule, th[t].old_value,
                                                                 Get(th[t].new_value))
                                              THEN "dispatch" ELSE "rules" ] ]
               /\ UNCHANGED last_values
       ELSE /\ th' = [ th EXCEPT ![t] = Sleeping(t) ]
            /\ last_values' = LastValuesSet(th[t].i, Get(th[t].new_value))
    /\ UNCHANGED << monitoring, monitor_thread, targets, rules, message_queue,
                    config_file, caller, ret >>

\* An execute_action that lets its exception out: the loop's except reports it
\* and the rest of the cycle, the store of the value included, is skipped.
LoopDispatch_raising(t, w) ==
    LET a == execute_action(th[t].rule, w)
        n == IF th[t].rule.notify THEN send_notification(w) ELSE << >>
    IN /\ th[t].pc = "dispatch"
       /\ CanPut(a.msgs)
       /\ message_queue' = message_queue \o a.msgs
       /\ th' = [ th EXCEPT ![t] =
                    IF a.msgs = << "action_error" >> THEN Sleeping(t)
                    ELSE [ @ EXCEPT !.pc = "rules", !.calls = n \o a.calls ] ]
       /\ UNCHANGED << monitoring, monitor_thread, targets, rules, last_values,
                       config_file, caller, ret >>

\* if rule.notify: self.send_notification(...); self.execute_action(rule)
LoopDispatch(t, w) ==
    LET a == execute_action(th[t].rule, w)
        n == IF th[t].rule.notify THEN send_notification(w) ELSE << >>
    IN /\ th[t].pc = "dispatch"
       /\ CanPut(a.msgs)
       /\ message_queue' = message_queue \o a.msgs
       /\ th' = [ th EXCEPT ![t] = [ @ EXCEPT !.pc = "rules", !.calls = n \o a.calls ] ]
       /\ UNCHANGED << monitoring, monitor_thread, targets, rules, last_values,
                       config_file, caller, ret >>

\* time.sleep(target.check_interval) returns once the interval has passed.
LoopWake(t) ==
    /\ th[t].pc = "sleep"
    /\ th[t].sleepLeft = 0
    /\ th' = [ th EXCEPT ![t] = [ @ EXCEPT !.pc = "for" ] ]
    /\ UNCHANGED << monitoring, monitor_thread, targets, rules, last_values,
                    message_queue, config_file, caller, ret >>

\* What is left of a wait of n seconds after one step of the clock.
After(n) == IF n > TickSeconds THEN n - TickSeconds ELSE 0

\* Time passes: for every thread in time.sleep and for a caller in join.
Tick ==
    /\ \/ \E t \in Threads : th[t].pc = "sleep" /\ th[t].sleepLeft > 0
       \/ caller.pc = "joining" /\ caller.joinLeft > 0
    /\ th' = [ t \in Threads |->
                 IF th[t].pc = "sleep"
                 THEN [ th[t] EXCEPT !.sleepLeft = After(@) ] ELSE th[t] ]
    /\ caller' = IF caller.pc = "joining"
                 THEN [ caller EXCEPT !.joinLeft = After(@) ] ELSE caller
    /\ UNCHANGED << monitoring, monitor_thread, targets, rules, last_values,
                    message_queue, config_file, ret >>

\* ------------------------------------------------------------- start and stop
\* threading.Thread(...): the new thread is the first one of T not running.
NewThread(T) == CHOOSE t \in T : ~Alive(t) /\ \A u \in T : ~Alive(u) => t <= u

\* start_monitoring without its test of self.monitoring
start_monitoring_unguarded(T) ==
    /\ caller.pc = "idle"
    /\ IF targets # << >>
       THEN /\ \E t \in T : ~Alive(t)
            /\ monitoring' = TRUE
            /\ monitor_thread' = NewThread(T)
            /\ th' = [ th EXCEPT ![NewThread(T)] = [ DeadThread EXCEPT !.pc = "while" ] ]
            /\ ret' = [ op |-> "start_monitoring", val |-> TRUE ]
       ELSE /\ ret' = [ op |-> "start_monitoring", val |-> FALSE ]
            /\ UNCHANGED << monitoring, monitor_thread, th >>
    /\ UNCHANGED << targets, rules, last_values, message_queue, config_file, caller >>

start_monitoring(T) ==
    /\ caller.pc = "idle"
    /\ IF ~monitoring /\ targets # << >>
       THEN /\ \E t \in T : ~Alive(t)
            /\ monitoring' = TRUE
            /\ monitor_thread' = NewThread(T)
            /\ th' = [ th EXCEPT ![NewThread(T)] = [ DeadThread EXCEPT !.pc = "while" ] ]
            /\ ret' = [ op |-> "start_monitoring", val |-> TRUE ]
       ELSE /\ ret' = [ op |-> "start_monitoring", val |-> FALSE ]
            /\ UNCHANGED << monitoring, monitor_thread, th >>
    /\ UNCHANGED << targets, rules, last_values, message_queue, config_file, caller >>

\* self.monitoring = False, and the caller enters join(timeout=5) if there is a
\* thread object.
stop_monitoring ==
    /\ caller.pc = "idle"
    /\ monitoring' = FALSE
    /\ caller' = IF monitor_thread # 0
                 THEN [ pc |-> "joining", joinLeft |-> JoinTimeout ]
                 ELSE caller
    /\ ret' = IF monitor_thread # 0 THEN ret
               ELSE NoRet
    /\ UNCHANGED << monitor_thread, targets, rules, last_values, message_queue,
                    config_file, th >>

\* join returns: the thread has ended, or the timeout has passed.
stop_return ==
    /\ caller.pc = "joining"
    /\ ~Alive(monitor_thread) \/ caller.joinLeft = 0
    /\ caller' = [ pc |-> "idle", joinLeft |-> 0 ]
    /\ ret' = NoRet
    /\ UNCHANGED << monitoring, monitor_thread, targets, rules, last_values,
                    message_queue, config_file, th >>

\* ------------------------------------------------------------- the lists
\* int(s) succeeds on the model's strings exactly when float(s) does.
IsInt(s) == IsFloat(s)
IntOf(s) == FloatOf(s)

\* What the target form holds when "add target" is pressed.
TargetForm(u, s, st, iv, d) ==
    [ url |-> u, selector |-> s, selector_type |-> st, interval |-> iv,
      description |-> d ]
FormA == TargetForm("u1", "s1", "xpath", << "1", "0" >>, "A")
FormB == TargetForm("u2", "s2", "id", << "5" >>, "")
FormNoUrl == TargetForm("", "s1", "xpath", << "5" >>, "")

\* MonitorGUI.add_target: an incomplete form is refused, SelectorType(...) and
\* int(...) may raise, otherwise the target is appended.
add_target(f) ==
    /\ caller.pc = "idle"
    /\ Len(targets) < MaxTargets
    /\ IF f.url # "" /\ f.selector # "" /\ IsSelectorTypeValue(f.selector_type)
          /\ IsInt(f.interval)
       THEN targets' = Append(targets,
                              MonitorTarget(f.url, f.selector,
                                            SelectorTypeOf(f.selector_type),
                                            IntOf(f.interval), f.description))
       ELSE UNCHANGED targets
    /\ ret' = NoRet
    /\ UNCHANGED << monitoring, monitor_thread, rules, last_values, message_queue,
                    config_file, th, caller >>

\* del lst[index], index counted from 0
Del(lst, index) == SubSeq(lst, 1, index) \o SubSeq(lst, index + 2, Len(lst))

\* MonitorGUI.delete_target: del self.monitor.targets[index]
delete_target(index) ==
    /\ caller.pc = "idle"
    /\ index < Len(targets)
    /\ targets' = Del(targets, index)
    /\ ret' = NoRet
    /\ UNCHANGED << monitoring, monitor_thread, rules, last_values, message_queue,
                    config_file, th, caller >>

\* What the rule form holds when "add rule" is pressed.
RuleForm(c, cv, au, as, ast, n, d) ==
    [ condition |-> c, condition_value |-> cv, action_url |-> au,
      action_selector |-> as, action_selector_type |-> ast, notify |-> n,
      description |-> d ]

\* MonitorGUI.add_rule: empty entries become None.
add_rule(f) ==
    /\ caller.pc = "idle"
    /\ Len(rules) < MaxRules
    /\ IF f.action_selector # "" => IsSelectorTypeValue(f.action_selector_type)
       THEN rules' = Append(rules,
                ActionRule(f.condition,
                           IF f.condition_value = Empty THEN None
                           ELSE Some(f.condition_value),
                           IF f.action_url = "" THEN None ELSE Some(f.action_url),
                           IF f.action_selector = "" THEN None
                           ELSE Some(f.action_selector),
                           IF f.action_selector = "" THEN None
                           ELSE Some(SelectorTypeOf(f.action_selector_type)),
                           f.notify, f.description))
       ELSE UNCHANGED rules
    /\ ret' = NoRet
    /\ UNCHANGED << monitoring, monitor_thread, targets, last_values, message_queue,
                    config_file, th, caller >>

\* MonitorGUI.delete_rule: del self.monitor.rules[index]
delete_rule(index) ==
    /\ caller.pc = "idle"
    /\ index < Len(rules)
    /\ rules' = Del(rules, index)
    /\ ret' = NoRet
    /\ UNCHANGED << monitoring, monitor_thread, targets, last_values, message_queue,
                    config_file, th, caller >>

\* MonitorGUI.update_message_loop: the queue is emptied into the log.
update_message_loop ==
    /\ caller.pc = "idle"
    /\ message_queue # << >>
    /\ message_queue' = << >>
    /\ UNCHANGED << monitoring, monitor_thread, targets, rules, last_values,
                    config_file, th, caller, ret >>

\* ------------------------------------------------------------- the config file
\* The JSON document save_config writes: the enum members become their values.
TargetDoc(t) ==
    [ url |-> t.url, selector |-> t.element_selector,
      selector_type |-> SelectorTypeValue(t.selector_type),
      interval |-> t.check_interval, description |-> t.description ]

\* A rule written without its action_selector_type
RuleDoc_untyped(r) ==
    [ condition |-> r.condition, condition_value |-> r.condition_value,
      action_url |-> r.action_url, action_selector |-> r.action_selector,
      action_selector_type |-> None,
      notify |-> r.notify, description |-> r.description ]

RuleDoc(r) ==
    [ condition |-> r.condition, condition_value |-> r.condition_value,
      action_url |-> r.action_url, action_selector |-> r.action_selector,
      action_selector_type |-> IF ~IsNone(r.action_selector_type)
                               THEN Some(SelectorTypeValue(Get(r.action_selector_type)))
                               ELSE None,
      notify |-> r.notify, description |-> r.description ]

ConfigDoc(ts, rs) ==
    [ targets |-> [ k \in 1..Len(ts) |-> TargetDoc(ts[k]) ],
      rules |-> [ k \in 1..Len(rs) |-> RuleDoc(rs[k]) ] ]

save_config ==
    /\ caller.pc = "idle"
    /\ config_file' = Some(ConfigDoc(targets, rules))
    /\ ret' = NoRet
    /\ UNCHANGED << monitoring, monitor_thread, targets, rules, last_values,
                    message_queue, th, caller >>

TargetKeys == { "url", "selector", "selector_type", "interval", "description" }
RuleKeys == { "condition", "condition_value", "action_url", "action_selector",
              "action_selector_type", "notify", "description" }

\* MonitorTarget(url=t['url'], ...) is built: no KeyError, no ValueError.
TargetLoads(d) == TargetKeys \subseteq DOMAIN d /\ IsSelectorTypeValue(d.selector_type)
LoadTarget(d) == MonitorTarget(d.url, d.selector, SelectorTypeOf(d.selector_type),
                               d.interval, d.description)

\* ActionRule(condition=r['condition'], ...) is built.
RuleLoads(d) ==
    /\ RuleKeys \subseteq DOMAIN d
    /\ TruthyA(d.action_selector_type) => IsSelectorTypeValue(Get(d.action_selector_type))
LoadRule(d) ==
    ActionRule(d.condition, d.condition_value, d.action_url, d.action_selector,
               IF TruthyA(d.action_selector_type)
               THEN Some(SelectorTypeOf(Get(d.action_selector_type))) ELSE None,
               d.notify, d.description)

\* config.get(key, [])
DocGet(doc, key) == IF key \in DOMAIN doc THEN doc[key] ELSE << >>

\* load_config that leaves out the target records it cannot build
load_config_skipping ==
    /\ caller.pc = "idle"
    /\ IF IsNone(config_file)
       THEN /\ ret' = [ op |-> "load_config", val |-> TRUE ]
            /\ UNCHANGED << targets, rules >>
       ELSE IF "malformed" \in DOMAIN Get(config_file)
       THEN /\ ret' = [ op |-> "load_config", val |-> FALSE ]
            /\ UNCHANGED << targets, rules >>
       ELSE LET doc == Get(config_file)
                ts == SelectSeq(DocGet(doc, "targets"), TargetLoads)
                rs == DocGet(doc, "rules")
                rsOk == \A k \in 1..Len(rs) : RuleLoads(rs[k])
            IN /\ targets' = [ k \in 1..Len(ts) |-> LoadTarget(ts[k]) ]
               /\ rules' = IF rsOk THEN [ k \in 1..Len(rs) |-> LoadRule(rs[k]) ]
                           ELSE rules
               /\ ret' = [ op |-> "load_config", val |-> rsOk ]
    /\ UNCHANGED << monitoring, monitor_thread, last_values, message_queue,
                    config_file, th, caller >>

\* load_config: nothing without a file; json.load raises on a file that is not
\* JSON; else self.targets is assigned once every
\* target record is built, then self.rules once every rule record is built; the
\* first record that cannot be built raises out of the method.
load_config ==
    /\ caller.pc = "idle"
    /\ IF IsNone(config_file)
       THEN /\ ret' = [ op |-> "load_config", val |-> TRUE ]
            /\ UNCHANGED << targets, rules >>
       ELSE IF "malformed" \in DOMAIN Get(config_file)
       THEN /\ ret' = [ op |-> "load_config", val |-> FALSE ]
            /\ UNCHANGED << targets, rules >>
       ELSE LET doc == Get(config_file)
                ts == DocGet(doc, "targets")
                rs == DocGet(doc, "rules")
                tsOk == \A k \in 1..Len(ts) : TargetLoads(ts[k])
                rsOk == \A k \in 1..Len(rs) : RuleLoads(rs[k])
            IN /\ targets' = IF tsOk THEN [ k \in 1..Len(ts) |-> LoadTarget(ts[k]) ]
                             ELSE targets
               /\ rules' = IF tsOk /\ rsOk THEN [ k \in 1..Len(rs) |-> LoadRule(rs[k]) ]
                           ELSE rules
               /\ ret' = [ op |-> "load_config", val |-> tsOk /\ rsOk ]
    /\ UNCHANGED << monitoring, monitor_thread, last_values, message_queue,
                    config_file, th, caller >>

\* The file is written by something else than save_config (an editor).
write_file(doc) ==
    /\ config_file' = Some(doc)
    /\ UNCHANGED << monitoring, monitor_thread, targets, rules, last_values,
                    message_queue, th, caller, ret >>

\* ------------------------------------------------------------- inputs
RuleAny == RuleForm("any_change", Empty, "http://act", "btn", "id", TRUE, "any")
RuleGreater10 == RuleForm("greater", V10, "", "", "xpath", FALSE, "gt")
RuleLess10 == RuleForm("less", V10, "", "", "xpath", TRUE, "lt")
RuleContainsX == RuleForm("contains", VX, "", "btn", "css", TRUE, "has X")

WorldOk == World("ok", "ok", TRUE, "ok", "ok")
WorldRaise == World("raise", "raise", TRUE, "raise", "raise")
WorldNotFound == World("ok", "ok", FALSE, "ok", "ok")

\* ------------------------------------------------------------- observers
\* Thread 1 is processing a fetched value: it is between the fetch and the sleep.
Processing == th[1].pc \in { "rules", "dispatch" }

\* Thread 1 fetches page: the target is seen if the fetch succeeds.
WatchFirst(page) ==
    LET ok == ~IsNone(get_element_value(page).value)
    IN /\ seen' = IF ok THEN seen \cup { th[1].target } ELSE seen
       /\ first' = (ok /\ th[1].target \notin seen /\ Processing')

\* Any other step: first lasts while the change is processed.
KeepFirst ==
    /\ seen' = seen
    /\ first' = (first /\ Processing')

\* stop_monitoring is called: is its thread in time.sleep, with time to go?
WatchStop ==
    /\ midSleep' = /\ monitor_thread # 0
                   /\ th[monitor_thread].pc = "sleep"
                   /\ th[monitor_thread].sleepLeft > 0
    /\ UNCHANGED << seen, first, evals, rulesAt, hist, disp, saved, lastSeen,
                    passAt, fetched, valuesOf >>

\* ------------------------------------------------------------- the scheduler
\* The calling thread starts and stops the monitoring and edits a list of one
\* target and a list of one rule while up to MaxThreads threads run
\* monitor_loop.
Next ==
    \/ UNCHANGED obs /\ \E t \in Threads : LoopWhile(t)
    \/ UNCHANGED obs /\ \E t \in Threads : LoopFor(t)
    \/ UNCHANGED obs /\ \E t \in Threads :
          \E page \in { PageRaise, PageText(V5), PageInput(V12) } : LoopFetch(t, page)
    \/ UNCHANGED obs /\ \E t \in Threads : LoopRule(t)
    \/ UNCHANGED obs /\ \E t \in Threads :
          \E w \in { WorldOk, WorldRaise } : LoopDispatch(t, w)
    \/ UNCHANGED obs /\ \E t \in Threads : LoopWake(t)
    \/ UNCHANGED obs /\ Tick
    \/ UNCHANGED obs /\ start_monitoring(Threads)
    \/ stop_monitoring /\ WatchStop
    \/ UNCHANGED obs /\ stop_return
    \/ UNCHANGED obs /\ targets = << >> /\ \E f \in { FormA, FormNoUrl } : add_target(f)
    \/ UNCHANGED obs /\ delete_target(0)
    \/ UNCHANGED obs /\ rules = << >> /\ add_rule(RuleAny)
    \/ UNCHANGED obs /\ update_message_loop

Spec == Init /\ [][Next]_all

\* ------------------------------------------------------------- the loop
\* One thread runs monitor_loop over the lists the calling thread edits, against
\* every answer of the browser.
LoopPages == { PageRaise, PageNoElement, PageEmpty, PageText(V5), PageInput(V12) }

KeepLoop ==
    KeepFirst /\ UNCHANGED << evals, rulesAt, hist, disp, saved, midSleep, lastSeen,
                              passAt, fetched, valuesOf >>

NextLoop ==
    \/ /\ \E page \in LoopPages : LoopFetch(1, page) /\ WatchFirst(page)
       /\ UNCHANGED << evals, rulesAt, hist, disp, saved, midSleep, lastSeen,
                       passAt, fetched, valuesOf >>
    \/ LoopWhile(1) /\ KeepLoop
    \/ LoopFor(1) /\ KeepLoop
    \/ LoopRule(1) /\ KeepLoop
    \/ \E w \in { WorldOk, WorldRaise, WorldNotFound } : LoopDispatch(1, w) /\ KeepLoop
    \/ LoopWake(1) /\ KeepLoop
    \/ Tick /\ KeepLoop
    \/ start_monitoring({ 1 }) /\ KeepLoop
    \/ \E f \in { FormA, FormB } : add_target(f) /\ KeepLoop
    \/ \E index \in 0..(MaxTargets - 1) : delete_target(index) /\ KeepLoop
    \/ \E f \in { RuleAny, RuleGreater10 } : add_rule(f) /\ KeepLoop
    \/ \E index \in 0..(MaxRules - 1) : delete_rule(index) /\ KeepLoop
    \/ update_message_loop /\ KeepLoop

SpecLoop == Init /\ [][NextLoop]_all

\* ------------------------------------------------------------- one target, one rule
\* One target and one numeric rule are set up, then the monitoring is started
\* and the loop polls the target MaxCycles times.
MaxCycles == 3

PollPages == { PageRaise, PageNoElement, PageEmpty, PageText(V5), PageText(V10),
               PageText(V12) }

\* A cycle starts: what the fetch gave, and no dispatch yet.
WatchPoll(page) ==
    /\ hist' = Append(hist, get_element_value(page).value)
    /\ disp' = Append(disp, 0)
    /\ UNCHANGED << seen, first, evals, rulesAt, saved, midSleep, lastSeen,
                    passAt, fetched, valuesOf >>

\* A rule is dispatched in the current cycle.
WatchDispatch ==
    /\ disp' = [ disp EXCEPT ![Len(disp)] = @ + 1 ]
    /\ UNCHANGED << seen, first, evals, rulesAt, hist, saved, midSleep,
                    lastSeen, passAt, fetched, valuesOf >>

NextPoll ==
    \/ targets = << >> /\ add_target(FormB) /\ UNCHANGED obs
    \/ rules = << >> /\ (\E f \in { RuleGreater10, RuleLess10 } : add_rule(f))
                     /\ UNCHANGED obs
    \/ rules # << >> /\ start_monitoring({ 1 }) /\ UNCHANGED obs
    \/ LoopWhile(1) /\ UNCHANGED obs
    \/ LoopFor(1) /\ UNCHANGED obs
    \/ Len(hist) < MaxCycles /\ \E page \in PollPages : LoopFetch(1, page) /\ WatchPoll(page)
    \/ LoopRule(1) /\ UNCHANGED obs
    \/ LoopDispatch(1, WorldOk) /\ WatchDispatch
    \/ LoopWake(1) /\ UNCHANGED obs
    \/ Tick /\ UNCHANGED obs
    \/ update_message_loop /\ UNCHANGED obs

SpecPoll == Init /\ [][NextPoll]_all

\* ------------------------------------------------------------- rules edited
\* One target is monitored while the rule list is edited: rules are added and
\* deleted while the loop goes through the list.
RulePages == { PageText(Va), PageText(VaX) }

\* A change is detected: the rules of the list at that moment.
WatchChange ==
    /\ rulesAt' = IF Processing' THEN rules ELSE rulesAt
    /\ evals' = IF Processing' THEN << >> ELSE evals
    /\ UNCHANGED << seen, first, hist, disp, saved, midSleep, lastSeen, passAt,
                    fetched, valuesOf >>

\* The loop checks the next rule of the list, if there is one.
WatchRule ==
    /\ evals' = IF th[1].rit < Len(rules)
                THEN Append(evals, rules[th[1].rit + 1]) ELSE evals
    /\ UNCHANGED << seen, first, rulesAt, hist, disp, saved, midSleep,
                    lastSeen, passAt, fetched, valuesOf >>

\* A rule deleted while the change is processed has not stayed in the list.
WatchDelete(index) ==
    /\ rulesAt' = IF Processing
                  THEN LET Stays(r) == r # rules[index + 1]
                       IN SelectSeq(rulesAt, Stays)
                  ELSE rulesAt
    /\ UNCHANGED << seen, first, evals, hist, disp, saved, midSleep, lastSeen,
                    passAt, fetched, valuesOf >>

NextRules ==
    \/ targets = << >> /\ add_target(FormB) /\ UNCHANGED obs
    \/ \E f \in { RuleContainsX, RuleAny } :
          /\ \A k \in 1..Len(rules) : rules[k].description # f.description
          /\ add_rule(f)
          /\ UNCHANGED obs
    \/ \E index \in 0..(MaxRules - 1) : delete_rule(index) /\ WatchDelete(index)
    \/ start_monitoring({ 1 }) /\ UNCHANGED obs
    \/ LoopWhile(1) /\ UNCHANGED obs
    \/ LoopFor(1) /\ UNCHANGED obs
    \/ \E page \in RulePages : LoopFetch(1, page) /\ WatchChange
    \/ LoopRule(1) /\ WatchRule
    \/ LoopDispatch(1, WorldOk) /\ UNCHANGED obs
    \/ LoopWake(1) /\ UNCHANGED obs
    \/ Tick /\ UNCHANGED obs
    \/ update_message_loop /\ UNCHANGED obs

SpecRules == Init /\ [][NextRules]_all

\* ------------------------------------------------------------- the config file in use
\* The lists are edited, saved and loaded, and the file is rewritten by hand,
\* while the loop polls a page that does not change.
TargetA == MonitorTarget("u1", "s1", "XPATH", 10, "A")

DocBadTarget ==
    [ targets |-> << TargetDoc(TargetA),
                     [ TargetDoc(TargetA) EXCEPT !.selector_type = "regex" ] >>,
      rules |-> << >> ]
DocBadRule ==
    [ targets |-> << TargetDoc(TargetA) >>,
      rules |-> << [ condition |-> "any_change", condition_value |-> None,
                     action_url |-> None, action_selector |-> Some("btn"),
                     action_selector_type |-> Some("regex"), notify |-> TRUE,
                     description |-> "bad" ] >> ]
DocMalformed == [ malformed |-> TRUE ]
DocTargetsOnly == [ targets |-> << TargetDoc(TargetA) >> ]
ConfigDocs == { DocBadTarget, DocBadRule, DocMalformed, DocTargetsOnly }

WatchSave ==
    /\ saved' = Some([ targets |-> targets, rules |-> rules ])
    /\ UNCHANGED << seen, first, evals, rulesAt, hist, disp, midSleep,
                    lastSeen, passAt, fetched, valuesOf >>

WatchWrite ==
    /\ saved' = None
    /\ UNCHANGED << seen, first, evals, rulesAt, hist, disp, midSleep,
                    lastSeen, passAt, fetched, valuesOf >>

NextConfig ==
    \/ (\E f \in { FormA, FormB } : add_target(f)) /\ UNCHANGED obs
    \/ delete_target(0) /\ UNCHANGED obs
    \/ (\E f \in { RuleAny, RuleGreater10 } : add_rule(f)) /\ UNCHANGED obs
    \/ delete_rule(0) /\ UNCHANGED obs
    \/ save_config /\ WatchSave
    \/ load_config /\ UNCHANGED obs
    \/ (\E doc \in ConfigDocs : write_file(doc)) /\ WatchWrite
    \/ start_monitoring({ 1 }) /\ UNCHANGED obs
    \/ LoopWhile(1) /\ UNCHANGED obs
    \/ LoopFor(1) /\ UNCHANGED obs
    \/ LoopFetch(1, PageText(V5)) /\ UNCHANGED obs
    \/ LoopWake(1) /\ UNCHANGED obs
    \/ Tick /\ UNCHANGED obs

SpecConfig == Init /\ [][NextConfig]_all

\* ------------------------------------------------------------- equals rules
\* A hand-written file holds one target and two equals rules, one of them with
\* the empty string as its condition_value; it is loaded and the target is
\* monitored.
DocEquals ==
    [ targets |-> << TargetDoc(TargetA) >>,
      rules |-> << [ condition |-> "equals", condition_value |-> Some(Empty),
                     action_url |-> None, action_selector |-> None,
                     action_selector_type |-> None, notify |-> TRUE,
                     description |-> "is empty" ],
                   [ condition |-> "equals", condition_value |-> Some(V5),
                     action_url |-> Some("http://act"), action_selector |-> Some("btn"),
                     action_selector_type |-> Some("id"), notify |-> FALSE,
                     description |-> "is 5" ] >> ]

EqualsPages == { PageEmpty, PageText(V5), PageText(Va) }

NextEquals ==
    \/ IsNone(config_file) /\ write_file(DocEquals) /\ UNCHANGED obs
    \/ load_config /\ UNCHANGED obs
    \/ start_monitoring({ 1 }) /\ UNCHANGED obs
    \/ LoopWhile(1) /\ UNCHANGED obs
    \/ LoopFor(1) /\ UNCHANGED obs
    \/ (\E page \in EqualsPages : LoopFetch(1, page)) /\ UNCHANGED obs
    \/ LoopRule(1) /\ UNCHANGED obs
    \/ LoopDispatch(1, WorldOk) /\ UNCHANGED obs
    \/ LoopWake(1) /\ UNCHANGED obs
    \/ Tick /\ UNCHANGED obs
    \/ update_message_loop /\ UNCHANGED obs

SpecEquals == Init /\ [][NextEquals]_all

\* ------------------------------------------------------------- the driver's other users
\* MonitorGUI.test_selector: with a url and a selector in the form, the calling
\* thread navigates self.monitor.driver to the url ...
test_selector_begin(f) ==
    /\ caller.pc = "idle"
    /\ caller' = IF f.url # "" /\ f.selector # ""
                 THEN [ pc |-> "testing", joinLeft |-> 0 ] ELSE caller
    /\ ret' = NoRet
    /\ UNCHANGED << monitoring, monitor_thread, targets, rules, last_values,
                    message_queue, config_file, th >>

\* ... waits for the element, reads its value and shows it.
test_selector_end ==
    /\ caller.pc = "testing"
    /\ caller' = [ pc |-> "idle", joinLeft |-> 0 ]
    /\ UNCHANGED << monitoring, monitor_thread, targets, rules, last_values,
                    message_queue, config_file, th, ret >>

\* WebMonitor.manual_login: the calling thread navigates self.driver to the
\* login url and waits for the user ...
manual_login_begin ==
    /\ caller.pc = "idle"
    /\ caller' = [ pc |-> "login", joinLeft |-> 0 ]
    /\ ret' = NoRet
    /\ UNCHANGED << monitoring, monitor_thread, targets, rules, last_values,
                    message_queue, config_file, th >>

\* ... then reads the cookies from the driver and returns True.
manual_login_end ==
    /\ caller.pc = "login"
    /\ caller' = [ pc |-> "idle", joinLeft |-> 0 ]
    /\ ret' = [ op |-> "manual_login", val |-> TRUE ]
    /\ UNCHANGED << monitoring, monitor_thread, targets, rules, last_values,
                    message_queue, config_file, th >>

\* The calling thread is driving the browser.
CallerDrives == caller.pc \in { "testing", "login" }

DriverPages == { PageText(V5), PageText(V12) }

\* One target and one rule with an action are monitored while the user tests
\* selectors and logs in.
NextDriver ==
    \/ targets = << >> /\ add_target(FormB) /\ UNCHANGED obs
    \/ rules = << >> /\ add_rule(RuleAny) /\ UNCHANGED obs
    \/ start_monitoring({ 1 }) /\ UNCHANGED obs
    \/ LoopWhile(1) /\ UNCHANGED obs
    \/ LoopFor(1) /\ UNCHANGED obs
    \/ (\E page \in DriverPages : LoopFetch(1, page)) /\ UNCHANGED obs
    \/ LoopRule(1) /\ UNCHANGED obs
    \/ LoopDispatch(1, WorldOk) /\ UNCHANGED obs
    \/ LoopWake(1) /\ UNCHANGED obs
    \/ Tick /\ UNCHANGED obs
    \/ update_message_loop /\ UNCHANGED obs
    \/ (\E f \in { FormB, FormNoUrl } : test_selector_begin(f)) /\ UNCHANGED obs
    \/ test_selector_end /\ UNCHANGED obs
    \/ manual_login_begin /\ UNCHANGED obs
    \/ manual_login_end /\ UNCHANGED obs

SpecDriver == Init /\ [][NextDriver]_all

\* ------------------------------------------------------------- values per target
\* Two different targets are added before the monitoring is started and
\* deleted while the loop runs; what each target showed last is kept target by
\* target.
ChangePages == { PageRaise, PageEmpty, PageText(V5), PageText(V12) }

\* Thread 1 fetches page for its target.
WatchValue(page) ==
    LET v == get_element_value(page).value
        tg == th[1].target
    IN /\ lastSeen' = IF IsNone(v) THEN lastSeen
                      ELSE [ x \in DOMAIN lastSeen \cup { tg } |->
                               IF x = tg THEN Get(v) ELSE lastSeen[x] ]
       /\ UNCHANGED << seen, first, evals, rulesAt, hist, disp, saved, midSleep,
                       passAt, fetched, valuesOf >>

NextChange ==
    \/ \E f \in { FormA, FormB } :
          /\ \A k \in 1..Len(targets) : targets[k].url # f.url
          /\ ~monitoring
          /\ add_target(f)
          /\ UNCHANGED obs
    \/ (\E index \in 0..(MaxTargets - 1) : delete_target(index)) /\ UNCHANGED obs
    \/ rules = << >> /\ add_rule(RuleAny) /\ UNCHANGED obs
    \/ start_monitoring({ 1 }) /\ UNCHANGED obs
    \/ LoopWhile(1) /\ UNCHANGED obs
    \/ LoopFor(1) /\ UNCHANGED obs
    \/ \E page \in ChangePages : LoopFetch(1, page) /\ WatchValue(page)
    \/ LoopRule(1) /\ UNCHANGED obs
    \/ LoopDispatch(1, WorldOk) /\ UNCHANGED obs
    \/ LoopWake(1) /\ UNCHANGED obs
    \/ Tick /\ UNCHANGED obs
    \/ update_message_loop /\ UNCHANGED obs

SpecChange == Init /\ [][NextChange]_all

\* ------------------------------------------------------------- stopping in a pass
\* Two targets and a rule are set up, then the monitoring is started and
\* stopped, any number of times, while one thread at a time runs the loop.
StopPages == { PageText(V5), PageText(V12) }

NextStop ==
    \/ /\ ~monitoring /\ last_values = << >>
       /\ \E f \in { FormA, FormB } : add_target(f)
       /\ UNCHANGED obs
    \/ rules = << >> /\ add_rule(RuleAny) /\ UNCHANGED obs
    \/ start_monitoring({ 1 }) /\ UNCHANGED obs
    \/ stop_monitoring /\ WatchStop
    \/ stop_return /\ UNCHANGED obs
    \/ LoopWhile(1) /\ UNCHANGED obs
    \/ LoopFor(1) /\ UNCHANGED obs
    \/ (\E page \in StopPages : LoopFetch(1, page)) /\ UNCHANGED obs
    \/ LoopRule(1) /\ UNCHANGED obs
    \/ LoopDispatch(1, WorldOk) /\ UNCHANGED obs
    \/ LoopWake(1) /\ UNCHANGED obs
    \/ Tick /\ UNCHANGED obs
    \/ update_message_loop /\ UNCHANGED obs

SpecStop == Init /\ [][NextStop]_all

\* The same, with the thread scheduled, the clock running and join returning:
\* every fetch, action and sleep finishes.  Queue.put never waits, the queue
\* having no bound: the GUI's timer empties the model's queue whenever the
\* calling thread is idle again and again.
LoopStep ==
    \/ LoopWhile(1) /\ UNCHANGED obs
    \/ LoopFor(1) /\ UNCHANGED obs
    \/ (\E page \in StopPages : LoopFetch(1, page)) /\ UNCHANGED obs
    \/ LoopRule(1) /\ UNCHANGED obs
    \/ LoopDispatch(1, WorldOk) /\ UNCHANGED obs
    \/ LoopWake(1) /\ UNCHANGED obs

SpecStopFair ==
    /\ SpecStop
    /\ WF_all(LoopStep)
    /\ WF_all(Tick /\ UNCHANGED obs)
    /\ WF_all(stop_return /\ UNCHANGED obs)
    /\ SF_all(update_message_loop /\ UNCHANGED obs)

\* ------------------------------------------------------------- passes
\* Two different targets are added and deleted at any time while one thread
\* runs the loop; which targets a pass takes is kept pass by pass.
KeepPass == UNCHANGED << seen, first, evals, rulesAt, hist, disp, saved, midSleep,
                         lastSeen, valuesOf >>

\* The loop is at `while self.monitoring`: a pass starts, or the thread ends.
WatchPass ==
    /\ passAt' = IF monitoring THEN targets ELSE passAt
    /\ fetched' = IF monitoring THEN << >> ELSE fetched
    /\ KeepPass

\* The loop's iterator yields the next target of the list, if there is one.
WatchTake ==
    /\ fetched' = IF th'[1].pc = "fetch" THEN Append(fetched, th'[1].target)
                  ELSE fetched
    /\ passAt' = passAt
    /\ KeepPass

\* A deleted target has not been in the list all through the pass.
WatchGone(index) ==
    /\ passAt' = LET Stays(tg) == tg # targets[index + 1]
                 IN SelectSeq(passAt, Stays)
    /\ fetched' = fetched
    /\ KeepPass

NextPass ==
    \/ \E f \in { FormA, FormB } :
          /\ \A k \in 1..Len(targets) : targets[k].url # f.url
          /\ add_target(f)
          /\ UNCHANGED obs
    \/ \E index \in 0..(MaxTargets - 1) : delete_target(index) /\ WatchGone(index)
    \/ start_monitoring({ 1 }) /\ UNCHANGED obs
    \/ LoopWhile(1) /\ WatchPass
    \/ LoopFor(1) /\ WatchTake
    \/ (\E page \in { PageText(V5), PageNoElement } : LoopFetch(1, page)) /\ UNCHANGED obs
    \/ LoopWake(1) /\ UNCHANGED obs
    \/ Tick /\ UNCHANGED obs

SpecPass == Init /\ [][NextPass]_all

\* ------------------------------------------------------------- clicks
\* One target and two rules with an action selector are monitored; the page
\* load of an action, the lookup of its element, the click and the JavaScript
\* click each succeed or fail.
ClickWorlds == { w \in AllWorlds : w.notify = "ok" }

NextClick ==
    \/ targets = << >> /\ add_target(FormB) /\ UNCHANGED obs
    \/ \E f \in { RuleContainsX, RuleAny } :
          /\ \A k \in 1..Len(rules) : rules[k].description # f.description
          /\ add_rule(f)
          /\ UNCHANGED obs
    \/ start_monitoring({ 1 }) /\ UNCHANGED obs
    \/ LoopWhile(1) /\ UNCHANGED obs
    \/ LoopFor(1) /\ UNCHANGED obs
    \/ (\E page \in RulePages : LoopFetch(1, page)) /\ UNCHANGED obs
    \/ LoopRule(1) /\ UNCHANGED obs
    \/ (\E w \in ClickWorlds : LoopDispatch(1, w)) /\ UNCHANGED obs
    \/ LoopWake(1) /\ UNCHANGED obs
    \/ Tick /\ UNCHANGED obs
    \/ update_message_loop /\ UNCHANGED obs

SpecClick == Init /\ [][NextClick]_all

\* ------------------------------------------------------------- values and positions
\* Two different targets are added, deleted, saved and loaded at any time
\* while one thread runs the loop; every value a target has shown is kept
\* target by target.
KeyPages == { PageText(V5), PageText(V12) }

\* Thread 1 fetches page for its target.
WatchFetched(page) ==
    LET v == get_element_value(page).value
        tg == th[1].target
    IN /\ valuesOf' = IF IsNone(v) THEN valuesOf
                      ELSE [ x \in DOMAIN valuesOf \cup { tg } |->
                               IF x = tg
                               THEN (IF tg \in DOMAIN valuesOf THEN valuesOf[tg] ELSE { })
                                    \cup { Get(v) }
                               ELSE valuesOf[x] ]
       /\ UNCHANGED << seen, first, evals, rulesAt, hist, disp, saved, midSleep,
                       lastSeen, passAt, fetched >>

NextKey ==
    \/ \E f \in { FormA, FormB } :
          /\ \A k \in 1..Len(targets) : targets[k].url # f.url
          /\ add_target(f)
          /\ UNCHANGED obs
    \/ (\E index \in 0..(MaxTargets - 1) : delete_target(index)) /\ UNCHANGED obs
    \/ rules = << >> /\ add_rule(RuleAny) /\ UNCHANGED obs
    \/ save_config /\ UNCHANGED obs
    \/ load_config /\ UNCHANGED obs
    \/ start_monitoring({ 1 }) /\ UNCHANGED obs
    \/ LoopWhile(1) /\ UNCHANGED obs
    \/ LoopFor(1) /\ UNCHANGED obs
    \/ \E page \in KeyPages : LoopFetch(1, page) /\ WatchFetched(page)
    \/ LoopRule(1) /\ UNCHANGED obs
    \/ LoopDispatch(1, WorldOk) /\ UNCHANGED obs
    \/ LoopWake(1) /\ UNCHANGED obs
    \/ Tick /\ UNCHANGED obs
    \/ update_message_loop /\ UNCHANGED obs

SpecKey == Init /\ [][NextKey]_all

\* ------------------------------------------------------------- properties
\* A call of start_monitoring returns in this step.
StartReturns == ret'.op = "start_monitoring" /\ ret' # ret

\* C1: start_monitoring returns False and changes nothing when the monitoring
\* is on or there is no target; otherwise it sets self.monitoring, starts a
\* thread at the top of monitor_loop, makes it self.monitor_thread and returns
\* True.
C1_StartContract ==
    [][ StartReturns =>
          IF monitoring \/ targets = << >>
          THEN /\ ret'.val = FALSE
               /\ UNCHANGED << monitoring, monitor_thread, targets, rules,
                               last_values, message_queue, config_file, th, caller >>
          ELSE /\ ret'.val = TRUE
               /\ monitoring' = TRUE
               /\ monitor_thread' \in Threads
               /\ ~Alive(monitor_thread')
               /\ th'[monitor_thread'].pc = "while"
               /\ \A t \in Threads \ { monitor_thread' } : th'[t] = th[t]
               /\ UNCHANGED << targets, rules, last_values, message_queue,
                               config_file, caller >> ]_all

\* A start refused while the monitoring is on.
C1_Witness ==
    /\ ret = [ op |-> "start_monitoring", val |-> FALSE ]
    /\ monitoring
    /\ \E t \in Threads : Alive(t)

\* C2: at most one thread runs monitor_loop.
C2_OneLoopThread == Cardinality({ t \in Threads : Alive(t) }) <= 1

\* C3: when stop_monitoring is called while the loop is in its sleep, the loop
\* is out of that sleep by the end of the join window.
C3_StopEndsSleep ==
    ~ /\ caller.pc = "joining"
      /\ caller.joinLeft = 0
      /\ midSleep
      /\ th[monitor_thread].pc = "sleep"
      /\ th[monitor_thread].sleepLeft > 0

\* C4: the first successful fetch of a target never leads to a published change
\* or to a rule being checked.
C4_FirstFetchSilent == ~first

\* C7: every fetch that fails puts an error string on the queue.
C7_FailedFetchReported ==
    [][ \A page \in LoopPages :
          LoopFetch(1, page) /\ IsNone(get_element_value(page).value)
          => /\ Len(message_queue') = Len(message_queue) + 1
             /\ message_queue'[Len(message_queue')] = "fetch_error" ]_all

\* C8: self.monitoring is cleared only by a call of stop_monitoring, and a
\* thread leaves monitor_loop only when self.monitoring is cleared.
C8_OnlyStopEnds ==
    [][ /\ monitoring /\ ~monitoring' => caller.pc = "idle" /\ caller'.pc = "joining"
        /\ \A t \in Threads : Alive(t) /\ th'[t].pc = "dead" => ~monitoring ]_all

\* The loop is running after an action has failed and the last target is gone.
C8_Witness ==
    /\ monitoring
    /\ targets = << >>
    /\ \E t \in Threads : Alive(t)
    /\ message_queue = << "action_error" >>

\* The value self.last_values holds for the one target when cycle k starts:
\* the last value fetched before, None when no fetch has succeeded.
StoredBefore(k) ==
    LET js == { j \in 1..(k - 1) : ~IsNone(hist[j]) }
    IN IF js = { } THEN None
       ELSE hist[CHOOSE j \in js : \A j2 \in js : j2 <= j]

\* float(v) is strictly above, or below, float(rule.condition_value)
Strict(rule, v) ==
    /\ IsFloat(v)
    /\ IF rule.condition = "greater"
       THEN FloatOf(v) > FloatOf(Get(rule.condition_value))
       ELSE FloatOf(v) < FloatOf(Get(rule.condition_value))

\* Cycle k has a fetched value that differs from the stored one and satisfies
\* the comparison; with sentinel, a stored "" counts as no stored value.
Due(k, sentinel) ==
    LET s == StoredBefore(k)
    IN /\ ~IsNone(hist[k])
       /\ ~IsNone(s)
       /\ sentinel => Get(s) # Empty
       /\ Get(hist[k]) # Get(s)
       /\ Strict(rules[1], Get(hist[k]))

CycleDone(k) == k < Len(hist) \/ ~Processing

\* C5 (as stated): the numeric rule is dispatched in exactly the cycles whose
\* fetched value differs from the previously stored value and satisfies the
\* strict comparison.
C5_DispatchOnChange ==
    \A k \in 1..Len(hist) :
        CycleDone(k) => disp[k] = IF Due(k, FALSE) THEN 1 ELSE 0

\* C5 (amended): the numeric rule is dispatched in exactly the cycles whose
\* fetched value differs from a previously stored non-empty value and satisfies
\* the strict comparison; a stored "" is no baseline.
C5_DispatchOnChangeOfValue ==
    \A k \in 1..Len(hist) :
        CycleDone(k) => disp[k] = IF Due(k, TRUE) THEN 1 ELSE 0

\* The values 5, 5, 12 under the rule greater than 10: one dispatch, in cycle 3.
C5_Witness ==
    /\ hist = << Some(V5), Some(V5), Some(V12) >>
    /\ disp = << 0, 0, 1 >>
    /\ rules[1].condition = "greater"
    /\ th[1].pc = "sleep"

Count(seq, x) == Cardinality({ j \in 1..Len(seq) : seq[j] = x })

\* C6: once a change has been processed, every rule that was in the list all
\* the while has been checked exactly once.
C6_EachRuleOnce ==
    ~Processing => \A k \in 1..Len(rulesAt) : Count(evals, rulesAt[k]) = 1

\* C9: load_config after save_config gives the target list and the rule list
\* that were saved, in every field.
C9_RoundTrip ==
    [][ load_config /\ ~IsNone(saved)
        => /\ targets' = Get(saved).targets
           /\ rules' = Get(saved).rules
           /\ ret'.val = TRUE ]_all

\* Two targets and two different rules are back after a load of the saved file.
C9_Witness ==
    /\ ret = [ op |-> "load_config", val |-> TRUE ]
    /\ ~IsNone(saved)
    /\ targets = Get(saved).targets /\ Len(targets) = MaxTargets
    /\ rules = Get(saved).rules /\ Len(rules) = MaxRules
    /\ rules[1] # rules[2]
    /\ targets[1] # targets[2]

\* Some target of the file has a selector_type that is no SelectorType value.
BadTargetFile ==
    /\ ~IsNone(config_file)
    /\ "targets" \in DOMAIN Get(config_file)
    /\ \E k \in 1..Len(Get(config_file).targets) :
          ~IsSelectorTypeValue(Get(config_file).targets[k].selector_type)

\* C10: load_config of a file with an unknown selector_type in a target fails
\* and leaves self.targets, self.rules and self.last_values as they were.
C10_BadSelectorTypeRejected ==
    [][ load_config /\ BadTargetFile
        => /\ ret'.val = FALSE
           /\ UNCHANGED << targets, rules, last_values >> ]_all

\* A load of such a file has failed with targets, rules and last values there.
C10_Witness ==
    /\ ret = [ op |-> "load_config", val |-> FALSE ]
    /\ BadTargetFile
    /\ targets # << >> /\ rules # << >> /\ last_values # << >>

\* C11: a load_config that fails leaves self.targets and self.rules as they
\* were, whichever record of the file it fails on.
C11_FailedLoadChangesNothing ==
    [][ load_config /\ ret'.val = FALSE => UNCHANGED << targets, rules >> ]_all

\* C12: load_config without a file raises nothing and leaves an empty target
\* list and an empty rule list.
C12_MissingFileGivesEmptyLists ==
    [][ load_config /\ IsNone(config_file)
        => ret'.val = TRUE /\ targets' = << >> /\ rules' = << >> ]_all

\* C13: for an equals rule with a string as condition_value, check_condition
\* is true exactly when new_value is that string, whatever old_value is.
C13_EqualsIsEquality ==
    [][ \A t \in Threads :
          /\ LoopRule(t)
          /\ th[t].rit < Len(rules)
          /\ rules[th[t].rit + 1].condition = "equals"
          /\ ~IsNone(rules[th[t].rit + 1].condition_value)
          => ((th'[t].pc = "dispatch")
              <=> (Get(th[t].new_value) = Get(rules[th[t].rit + 1].condition_value))) ]_all

\* C14: while the monitoring is on, the loop fetches and runs a rule's action
\* only when no test_selector and no manual_login is driving the browser.
C14_DriverExclusive ==
    [][ \A t \in Threads :
          \/ \E page \in DriverPages : LoopFetch(t, page)
          \/ LoopDispatch(t, WorldOk) /\ execute_action(th[t].rule, WorldOk).calls # << >>
          => ~CallerDrives ]_all

\* self.last_values holds a value under an index that self.targets no longer has.
StaleLastValue == \E i \in DOMAIN last_values : i >= Len(targets)

\* C15: when a target is deleted, and with last values left behind by deleted
\* targets, no step ends a loop thread.
C15_DeleteTolerated ==
    [][ \A t \in Threads :
          Alive(t) /\ (StaleLastValue \/ Len(targets') < Len(targets))
          => Alive(t)' ]_all

\* The loop is fetching the one target left, with the last value of a deleted
\* target still stored.
C15_Witness ==
    /\ monitoring
    /\ th[1].pc = "fetch"
    /\ Len(targets) = 1
    /\ StaleLastValue

\* C16: a successful fetch of a target whose value differs from the value of
\* the target's last successful fetch publishes a change and starts the rules
\* with (old, new) = (that value, this value), the empty string included.
C16_ChangeBetweenFetches ==
    [][ \A page \in ChangePages :
          /\ LoopFetch(1, page)
          /\ ~IsNone(get_element_value(page).value)
          /\ th[1].target \in DOMAIN lastSeen
          /\ lastSeen[th[1].target] # Get(get_element_value(page).value)
          => /\ message_queue' = Append(message_queue, "change")
             /\ th'[1].pc = "rules"
             /\ th'[1].old_value = lastSeen[th[1].target]
             /\ th'[1].new_value = get_element_value(page).value ]_all

StoredAfter(i) == IF i \in DOMAIN last_values' THEN last_values'[i] ELSE Empty

\* C18: when a thread goes to its sleep after a fetch that gave a value, that
\* value is stored under the index of the fetch, with or without a change and
\* whatever the notifier and the actions of the matching rules did.
C18_ValueStoredAtSleep ==
    [][ \A t \in Threads :
          /\ th[t].pc \in { "rules", "dispatch" } /\ th'[t].pc = "sleep"
             => StoredAfter(th[t].i) = Get(th[t].new_value)
          /\ \A page \in LoopPages :
                /\ LoopFetch(t, page)
                /\ ~IsNone(get_element_value(page).value)
                /\ th'[t].pc = "sleep"
                => StoredAfter(th[t].i) = Get(get_element_value(page).value) ]_all

\* The loop is in its sleep after an action has failed, with the value stored.
C18_Witness ==
    /\ th[1].pc = "sleep"
    /\ message_queue = << "action_error" >>
    /\ Len(targets) = 1
    /\ LastValuesGet(0) = V12

\* C19: a cycle whose fetch fails dispatches nothing, and between cycles the
\* value stored for the target is the value of its last successful fetch, the
\* failed fetches since then notwithstanding.
C19_FailedFetchKeepsValue ==
    /\ \A k \in 1..Len(hist) : IsNone(hist[k]) => disp[k] = 0
    /\ ~Processing
       => LET s == StoredBefore(Len(hist) + 1)
          IN LastValuesGet(0) = IF IsNone(s) THEN Empty ELSE Get(s)

\* 5, a failed fetch, then 12 under the rule greater than 10: the 12 is compared
\* with the 5 and the rule is dispatched.
C19_Witness ==
    /\ hist = << Some(V5), None, Some(V12) >>
    /\ disp = << 0, 0, 1 >>
    /\ rules[1].condition = "greater"
    /\ th[1].pc = "sleep"
    /\ LastValuesGet(0) = V12

\* C20: a loop thread goes on to the fetch of a target only with
\* self.monitoring set; once it is cleared, a thread finishes at most the
\* target it is at and takes no other.
C20_NoNewTargetAfterStop ==
    [][ \A t \in Threads :
          th[t].pc # "fetch" /\ th'[t].pc = "fetch" => monitoring /\ th[t].pc = "for" ]_all

\* The monitoring was stopped in the middle of a pass: the thread has ended
\* with the first of two targets fetched and the second never.
C20_Witness ==
    /\ ~monitoring
    /\ th[1].pc = "dead"
    /\ Len(targets) = 2
    /\ DOMAIN last_values = { 0 }

\* C21: stop_monitoring clears self.monitoring and returns from its join with
\* it cleared, the thread ended or not, and from any state with
\* self.monitoring cleared either the monitoring is started again or no loop
\* thread is left in the end.
C21_StopReturnsAndLoopEnds ==
    /\ [][ caller.pc = "joining" /\ caller'.pc = "idle" => ~monitoring' ]_all
    /\ [][ stop_monitoring => ~monitoring' ]_all
    /\ (caller.pc = "joining" ~> caller.pc = "idle")
    /\ (~monitoring ~> (monitoring \/ \A t \in Threads : ~Alive(t)))

\* stop_monitoring has returned after a join that timed out: the thread it
\* found in its sleep is still there.
C21_Witness ==
    /\ caller.pc = "idle"
    /\ ~monitoring
    /\ midSleep
    /\ th[1].pc = "sleep" /\ th[1].sleepLeft > 0

\* C22: when a pass is over, every target that was in the list all through the
\* pass has been taken for a fetch exactly once in it.
C22_EachTargetOncePerPass ==
    th[1].pc = "while" => \A k \in 1..Len(passAt) : Count(fetched, passAt[k]) = 1

\* C23: when a dispatched rule has an action selector and its element is
\* found, the element is clicked; the JavaScript click is run exactly when
\* that click fails, and after it; the queue gets an error when both fail and
\* the report of the click otherwise; and the thread goes on with the next
\* rule of the same change.
C23_ClickFallback ==
    [][ \A t \in Threads, w \in ClickWorlds :
          /\ LoopDispatch(t, w)
          /\ TruthyA(th[t].rule.action_selector)
          /\ ~IsNone(th[t].rule.action_selector_type)
          /\ w.found
          /\ TruthyA(th[t].rule.action_url) => w.nav = "ok"
          => LET c == th'[t].calls
             IN /\ \E k \in 1..Len(c) : c[k] = "click"
                /\ (\E k \in 1..Len(c) : c[k] = "script_click") <=> w.click = "raise"
                /\ \A j, k \in 1..Len(c) :
                      c[j] = "click" /\ c[k] = "script_click" => j < k
                /\ message_queue' =
                      Append(message_queue,
                             IF w.click = "raise" /\ w.script = "raise"
                             THEN "action_error" ELSE "action_done")
                /\ th'[t].pc = "rules"
                /\ th'[t].rit = th[t].rit /\ th'[t].it = th[t].it ]_all

\* Both clicks of the first rule's action have failed and the loop is about to
\* check the second rule.
C23_Witness ==
    /\ th[1].pc = "rules"
    /\ th[1].rit = 1 /\ Len(rules) = 2
    /\ th[1].calls = << "notify", "find", "click", "script_click" >>
    /\ message_queue = << "action_error" >>

\* C24: whenever a fetched value of a target is compared with a stored value,
\* the stored value is one that an earlier fetch of that same target gave, and
\* so is the old value the rules are then checked with.
C24_OldValueOfSameTarget ==
    [][ \A page \in KeyPages :
          /\ LoopFetch(1, page)
          /\ ~IsNone(get_element_value(page).value)
          /\ LastValuesGet(th[1].i) # Empty
          => /\ th[1].target \in DOMAIN valuesOf
             /\ LastValuesGet(th[1].i) \in valuesOf[th[1].target]
             /\ th'[1].pc = "rules" => th'[1].old_value \in valuesOf[th[1].target] ]_all

====
